---- MODULE Spec2Model ----
(***************************************************************************)
(* Credential lifecycle of the google-calendar MCP server (src/index.ts):  *)
(* loading and proactively refreshing the saved tokens, the token-update   *)
(* listener, the authentication gate of the CallTool handler and the       *)
(* startup sequence of main().  The AuthServer and TokenManager classes    *)
(* are imported by index.ts but their files are not part of the sources;   *)
(* what the model needs of them follows the written specification.         *)
(*                                                                         *)
(* Time is counted in minutes.  A credential field that is absent (or      *)
(* falsy) is written 0.  Every `await` of the code ends an action, so the  *)
(* tasks of the single-threaded event loop interleave exactly at awaits.   *)
(***************************************************************************)
EXTENDS Integers, FiniteSets, Sequences, TLC

\* ------------------------------------------------------------- bounds
NCalls == 2
MaxNow == 2
MaxIssued == 2
MaxListeners == 2
MaxHandlers == 2
MaxRetries == 1
Lifetime == 10

\* -------------------------------------------------- program constants
Margin == 5
FirstPort == 3000
LastPort == 3004

Ports == FirstPort..LastPort
Calls == 1..NCalls
Tasks == {0} \cup Calls
Handlers == 1..MaxHandlers

\* ------------------------------------------------- credential records
Empty == [at |-> 0, rt |-> 0, exp |-> 0]
Cred(a, r, e) == [at |-> a, rt |-> r, exp |-> e]

NoFile == [kind |-> "none", rec |-> Empty]
FileOf(rec) == [kind |-> "object", rec |-> rec]

ToolNames == {"list-calendars", "list-events", "create-event",
              "update-event", "delete-event", "list-colors", "unknown"}

VARIABLES
  now,        \* Date.now()
  file,       \* the token file: kind is none | unparseable | nonobject | object
  creds,      \* oauth2Client.credentials
  listeners,  \* number of 'tokens' listeners registered on oauth2Client
  issued,     \* access tokens issued by the provider so far
  mainpc,     \* where main() is
  authServer, \* whether the authServer variable holds an object
  pc,         \* per task: where its loadSavedTokens / request handling is
  tokens,     \* per task: the local `tokens` read from the file
  info,       \* per task: what its current loadSavedTokens call did
  call,       \* per tool call: the request and its outcome
  hnd,        \* the 'tokens' listener invocations in flight
  srv         \* the callback server

vars == <<now, file, creds, listeners, issued, mainpc, authServer, pc, tokens,
          info, call, hnd, srv>>

\* ------------------------------------------------------- pure helpers
\* index.ts:147  expiryDate ? Date.now() >= (expiryDate - 5*60*1000) : true
IsExpired(rec, t) == IF rec.exp # 0 THEN t >= rec.exp - Margin ELSE TRUE

NeedsRefresh_Always(rec, t) == rec.rt # 0

\* index.ts:149  isExpired && tokens.refresh_token
NeedsRefresh(rec, t) == IsExpired(rec, t) /\ rec.rt # 0

Loadable_NoTypeCheck(f) == f.kind \in {"object", "nonobject"}

\* index.ts:132-142  the file exists, parses, and is a non-null object
Loadable(f) == f.kind = "object"

\* index.ts:169-173  {...currentTokens, ...newTokens,
\*                    refresh_token: newTokens.refresh_token || currentTokens.refresh_token}
\* (a field the partial record does not carry keeps the current value)
MergeTokens(cur, new) ==
  [at  |-> IF new.at # 0 THEN new.at ELSE cur.at,
   exp |-> IF new.exp # 0 THEN new.exp ELSE cur.exp,
   rt  |-> IF new.rt # 0 THEN new.rt ELSE cur.rt]

\* index.ts:158  the record the proactive refresh writes
RefreshedRecord(cur, new) == new

RefreshUsable_NoTokenCheck(resp) == resp.ok

\* index.ts:154  !newTokens.access_token
RefreshUsable(resp) == resp.ok /\ resp.cred.at # 0

\* index.ts:151-156  how the refresh call came back
RespKind(resp) ==
  IF ~resp.ok THEN "rejected" ELSE IF resp.cred.at = 0 THEN "empty" ELSE "tokens"

\* A credential that can be used at time t: an access token not yet expired.
Usable(rec, t) == rec.at # 0 /\ rec.exp # 0 /\ t < rec.exp

\* What oauth2Client.refreshAccessToken() can come back with (index.ts:151-152):
\* a rejection, credentials without an access token, or a new access token
\* with or without a refresh_token and an expiry_date.
RefreshResponses(rec) ==
  {[ok |-> FALSE, cred |-> Empty], [ok |-> TRUE, cred |-> Empty]}
  \cup (IF issued < MaxIssued
        THEN {[ok |-> TRUE, cred |-> Cred(issued + 2, r, e)] :
                 r \in {0, rec.rt}, e \in {0, now + Lifetime}}
        ELSE {})

NoInfo == [refreshes |-> 0, resp |-> "none", wrote |-> FALSE,
           expired |-> FALSE, ret |-> FALSE]
NoCall == [outcome |-> "none", api |-> "none", port |-> 0]
FreeHandler == [st |-> "free", nt |-> Empty, upd |-> Empty]
IdleServer == [st |-> "idle", port |-> 0, occupied |-> {}, code |-> FALSE,
               inflight |-> 0, failures |-> 0, acked |-> FALSE,
               outcome |-> "none"]

InitialFiles ==
  {NoFile, [kind |-> "unparseable", rec |-> Empty],
   [kind |-> "nonobject", rec |-> Empty]}
  \cup {FileOf(Empty)}
  \cup {FileOf(Cred(1, r, e)) : r \in {0, 1}, e \in {0, 1, 4, 7}}

Init ==
  /\ now = 1
  /\ file \in InitialFiles
  /\ creds = Empty
  /\ listeners = 0
  /\ issued = 0
  /\ mainpc = "init"
  /\ authServer = FALSE
  /\ pc = [t \in Tasks |-> "idle"]
  /\ tokens = [t \in Tasks |-> Empty]
  /\ info = [t \in Tasks |-> NoInfo]
  /\ call = [c \in Calls |-> NoCall]
  /\ hnd = [h \in Handlers |-> FreeHandler]
  /\ srv = IdleServer

\* index.ts:541-563  the process runs until process.exit(); once the transport
\* is connected it serves requests, also while cleanup() awaits stop().
Alive == mainpc # "exited"
Serving == mainpc \in {"connected", "cleanup"}

\* ------------------------------------------------- loadSavedTokens
InFlight == {t \in Tasks : pc[t] \in {"load", "refreshing"}}

\* TokenManager.loadSavedTokens() / validateTokens(): task t enters the
\* load-and-refresh procedure.
StartLoad(t) ==
  /\ listeners + Cardinality(InFlight) < MaxListeners
  /\ pc' = [pc EXCEPT ![t] = "load"]
  /\ info' = [info EXCEPT ![t] = NoInfo]
  /\ tokens' = [tokens EXCEPT ![t] = Empty]

Return(t, i, r) ==
  /\ pc' = [pc EXCEPT ![t] = "ret"]
  /\ info' = [info EXCEPT ![t] = [i EXCEPT !.ret = r]]
  /\ tokens' = [tokens EXCEPT ![t] = Empty]

\* index.ts:130-149 and 166-180: up to the refresh request, or to the end
\* when no refresh is made.
LoadRead(t) ==
  /\ Alive
  /\ pc[t] = "load"
  /\ UNCHANGED <<now, file, issued, mainpc, authServer, call, hnd, srv>>
  /\ IF ~Loadable(file)
     THEN /\ Return(t, info[t], FALSE)
          /\ UNCHANGED <<creds, listeners>>
     ELSE /\ creds' = file.rec
          /\ IF NeedsRefresh(file.rec, now)
             THEN /\ tokens' = [tokens EXCEPT ![t] = file.rec]
                  /\ pc' = [pc EXCEPT ![t] = "refreshing"]
                  /\ info' = [info EXCEPT ![t] =
                                [@ EXCEPT !.expired = TRUE,
                                          !.refreshes = @ + 1]]
                  /\ UNCHANGED listeners
             ELSE /\ listeners' = listeners + 1
                  /\ Return(t, [info[t] EXCEPT
                                  !.expired = IsExpired(file.rec, now)], TRUE)

\* index.ts:151-163 and 166-180: the refresh answer arrives.
RefreshResponse(t) ==
  /\ Alive
  /\ pc[t] = "refreshing"
  /\ UNCHANGED <<now, mainpc, authServer, call, hnd, srv>>
  /\ \E resp \in RefreshResponses(tokens[t]) :
       IF ~RefreshUsable(resp)
       THEN /\ Return(t, [info[t] EXCEPT !.resp = RespKind(resp)], FALSE)
            /\ UNCHANGED <<file, creds, listeners, issued>>
       ELSE /\ file' = FileOf(RefreshedRecord(tokens[t], resp.cred))
            /\ creds' = resp.cred
            /\ listeners' = listeners + 1
            /\ issued' = issued + 1
            /\ Return(t, [info[t] EXCEPT !.resp = RespKind(resp),
                                         !.wrote = TRUE], TRUE)

\* The clock advances.
Tick ==
  /\ now < MaxNow
  /\ now' = now + 1
  /\ UNCHANGED <<file, creds, listeners, issued, mainpc, authServer, pc,
                 tokens, info, call, hnd, srv>>

\* ------------------------------------------------------------ main()
\* AuthServer.start(): the first candidate port nobody else holds, 0 when
\* every candidate is taken.
FirstFree(occ) ==
  IF Ports \ occ = {} THEN 0
  ELSE CHOOSE p \in Ports \ occ : \A q \in Ports \ occ : p <= q

\* AuthServer.start() with the ports in occ held by other processes.
StartServer(occ) ==
  IF FirstFree(occ) = 0
  THEN IdleServer
  ELSE [IdleServer EXCEPT !.st = "listening", !.port = FirstFree(occ)]

AfterStart_AlwaysConnect(success) == "connected"

\* index.ts:535-542  a failed start exits, otherwise the transport connects
AfterStart(success) == IF success THEN "connected" ELSE "exited"

\* index.ts:527-532  the OAuth client is built from the keys file (a read or
\* parse failure is fatal, index.ts:548-551) and the saved tokens are loaded.
MainInit ==
  /\ mainpc = "init"
  /\ UNCHANGED <<now, file, creds, listeners, issued, call, hnd, srv>>
  /\ \/ /\ mainpc' = "loading"
        /\ authServer' = TRUE
        /\ StartLoad(0)
     \/ /\ mainpc' = "exited"
        /\ UNCHANGED <<authServer, pc, info, tokens>>

\* index.ts:532-543  after loadSavedTokens() has answered.
MainAfterLoad ==
  /\ mainpc = "loading"
  /\ pc[0] = "ret"
  /\ pc' = [pc EXCEPT ![0] = "idle"]
  /\ info' = [info EXCEPT ![0] = NoInfo]
  /\ UNCHANGED <<now, file, creds, listeners, issued, authServer, tokens,
                 call, hnd>>
  /\ IF info[0].ret
     THEN /\ mainpc' = AfterStart(TRUE)
          /\ UNCHANGED srv
     ELSE \E occ \in SUBSET Ports :
            /\ mainpc' = "starting"
            /\ srv' = [IdleServer EXCEPT !.occupied = occ]

\* index.ts:534-543  authServer.start() has answered.
MainAfterStart ==
  /\ mainpc = "starting"
  /\ srv' = StartServer(srv.occupied)
  /\ mainpc' = AfterStart(StartServer(srv.occupied).st = "listening")
  /\ UNCHANGED <<now, file, creds, listeners, issued, authServer, pc, tokens,
                 info, call, hnd>>

\* ------------------------------------------------- CallTool handler
\* index.ts:376-512  the calendar API method each tool calls
ApiOf(name) ==
  CASE name = "list-calendars" -> "calendarList.list"
    [] name = "list-events"    -> "events.list"
    [] name = "create-event"   -> "events.insert"
    [] name = "update-event"   -> "events.patch"
    [] name = "delete-event"   -> "events.delete"
    [] name = "list-colors"    -> "colors.get"
    [] OTHER                   -> "none"

\* index.ts:390,417,440,464  the tools whose arguments are schema-parsed
ParsesArgs(name) ==
  name \in {"list-events", "create-event", "update-event", "delete-event"}

Outcome_NoGate(valid, name, argsOk) ==
  IF ApiOf(name) = "none" THEN "unknownTool"
  ELSE IF ParsesArgs(name) /\ ~argsOk THEN "badArgs"
  ELSE "apiCalled"

\* index.ts:365-371 and 376-513  how a request ends once validateTokens()
\* has answered `valid`
Outcome(valid, name, argsOk) ==
  IF ~valid THEN "authError"
  ELSE IF ApiOf(name) = "none" THEN "unknownTool"
  ELSE IF ParsesArgs(name) /\ ~argsOk THEN "badArgs"
  ELSE "apiCalled"

\* index.ts:366  const port = authServer ? 3000 : null   (0: the message that
\* tells the user to run "npm run auth")
AuthMessagePort == IF authServer THEN FirstPort ELSE 0

\* index.ts:361-365  a request arrives and validateTokens() is awaited.
CallTool(c) ==
  /\ Serving
  /\ pc[c] = "idle"
  /\ StartLoad(c)
  /\ UNCHANGED <<now, file, creds, listeners, issued, mainpc, authServer,
                 call, hnd, srv>>

\* index.ts:365-517  validateTokens() has answered; the request is refused
\* or dispatched on its tool name.
Dispatch(c) ==
  /\ Serving
  /\ pc[c] = "ret"
  /\ \A d \in Calls : pc[d] # "done"
  /\ pc' = [pc EXCEPT ![c] = "done"]
  /\ info' = [info EXCEPT ![c] = [NoInfo EXCEPT !.ret = info[c].ret]]
  /\ UNCHANGED <<now, file, creds, listeners, issued, mainpc, authServer,
                 tokens, hnd, srv>>
  /\ \E name \in ToolNames, argsOk \in BOOLEAN :
       LET o == Outcome(info[c].ret, name, argsOk) IN
         call' = [call EXCEPT ![c] =
                    [outcome |-> o,
                     api |-> IF o = "apiCalled" THEN ApiOf(name) ELSE "none",
                     port |-> IF o = "authError" THEN AuthMessagePort ELSE 0]]

\* The response has been sent; the slot serves the next request.
Finish(c) ==
  /\ Alive
  /\ pc[c] = "done"
  /\ pc' = [pc EXCEPT ![c] = "idle"]
  /\ call' = [call EXCEPT ![c] = NoCall]
  /\ info' = [info EXCEPT ![c] = NoInfo]
  /\ UNCHANGED <<now, file, creds, listeners, issued, mainpc, authServer,
                 tokens, hnd, srv>>

\* --------------------------------------------- the 'tokens' listener
FreeSlots == {h \in Handlers : hnd[h].st = "free"}

\* The k lowest free invocation slots.
Lowest(k) == {h \in FreeSlots : Cardinality({g \in FreeSlots : g < h}) < k}

\* What a 'tokens' event can carry (index.ts:166): the new access token and
\* its expiry, with or without the refresh_token.
EventTokens(cur) ==
  {Cred(issued + 2, r, now + Lifetime) : r \in {0, cur.rt}}

\* on-token-update: the OAuth client rotates its tokens on its own, keeps
\* them as its credentials and notifies every registered listener.
TokensEvent ==
  /\ Serving
  /\ listeners >= 1
  /\ creds.rt # 0
  /\ issued < MaxIssued
  /\ Cardinality(FreeSlots) >= listeners
  /\ issued' = issued + 1
  /\ \E nt \in EventTokens(creds) :
       /\ creds' = [nt EXCEPT !.rt = creds.rt]
       /\ hnd' = [h \in Handlers |->
                    IF h \in Lowest(listeners)
                    THEN [st |-> "read", nt |-> nt, upd |-> Empty]
                    ELSE hnd[h]]
  /\ UNCHANGED <<now, file, listeners, mainpc, authServer, pc, tokens, info,
                 call, srv>>

\* index.ts:168-173  the listener reads the file and merges; an unreadable
\* file throws into the catch of index.ts:175-177.
HandlerRead(h) ==
  /\ Alive
  /\ hnd[h].st = "read"
  /\ hnd' = [hnd EXCEPT ![h] =
               IF Loadable(file)
               THEN [st |-> "write", nt |-> Empty,
                     upd |-> MergeTokens(file.rec, hnd[h].nt)]
               ELSE FreeHandler]
  /\ UNCHANGED <<now, file, creds, listeners, issued, mainpc, authServer, pc,
                 tokens, info, call, srv>>

\* index.ts:174  the listener writes the merged record.
HandlerWrite(h) ==
  /\ Alive
  /\ hnd[h].st = "write"
  /\ file' = FileOf(hnd[h].upd)
  /\ hnd' = [hnd EXCEPT ![h] = FreeHandler]
  /\ UNCHANGED <<now, creds, listeners, issued, mainpc, authServer, pc,
                 tokens, info, call, srv>>

\* ------------------------------------------------ the callback server
\* The listener holds its port from a successful start until it stops.
Listening == Alive /\ srv.st = "listening"

OnCallback_NoSessionCheck(s, hasCode) ==
  IF ~hasCode THEN s
  ELSE [s EXCEPT !.code = TRUE, !.inflight = @ + 1]

\* What the redirect route does to the session: an error parameter or a
\* request without a code gets the failure page and changes nothing; the
\* first code of the session is exchanged; any later one is only
\* acknowledged.
OnCallback(s, hasCode) ==
  IF ~hasCode THEN s
  ELSE IF s.code THEN [s EXCEPT !.acked = TRUE]
  ELSE [s EXCEPT !.code = TRUE, !.inflight = @ + 1]

OnExchangeFailed_NoRetryBound(s) ==
  [s EXCEPT !.code = FALSE, !.inflight = @ - 1]

\* The server once exchange-code has failed: it listens on for another
\* code until the retry bound is used up, then stops.
OnExchangeFailed(s) ==
  IF s.failures < MaxRetries
  THEN [s EXCEPT !.code = FALSE, !.inflight = @ - 1, !.failures = @ + 1]
  ELSE [s EXCEPT !.st = "stopped", !.port = 0, !.inflight = @ - 1,
                 !.failures = @ + 1, !.outcome = "failure"]

\* The server once the exchanged credential is installed: it shuts down.
OnInstalled(s) ==
  [s EXCEPT !.st = "stopped", !.port = 0, !.inflight = @ - 1,
            !.outcome = "success"]

\* merge-and-save: the partial record laid over the stored one.
MergeAndSave(f, partial) ==
  FileOf(MergeTokens(IF Loadable(f) THEN f.rec ELSE Empty, partial))

\* The browser is redirected to the callback route.
Callback ==
  /\ Listening
  /\ \E hasCode \in BOOLEAN : srv' = OnCallback(srv, hasCode)
  /\ UNCHANGED <<now, file, creds, listeners, issued, mainpc, authServer, pc,
                 tokens, info, call, hnd>>

\* exchange-code answers: the new credential is installed and persisted
\* and the server shuts down, or the exchange has failed.
ExchangeResponse ==
  /\ Listening
  /\ srv.inflight > 0
  /\ UNCHANGED <<now, listeners, mainpc, authServer, pc, tokens, info, call,
                 hnd>>
  /\ \/ /\ issued < MaxIssued
        /\ \E r \in {0, 2} :
             LET t == Cred(issued + 2, r, now + Lifetime) IN
               /\ creds' = t
               /\ file' = MergeAndSave(file, t)
        /\ issued' = issued + 1
        /\ srv' = OnInstalled(srv)
     \/ /\ srv' = OnExchangeFailed(srv)
        /\ UNCHANGED <<file, creds, issued>>

\* No callback arrived within the window: the server stops.
ServerTimeout ==
  /\ Listening
  /\ srv.inflight = 0
  /\ srv' = [srv EXCEPT !.st = "stopped", !.port = 0, !.outcome = "timeout"]
  /\ UNCHANGED <<now, file, creds, listeners, issued, mainpc, authServer, pc,
                 tokens, info, call, hnd>>

\* ------------------------------------------------------------ cleanup()
\* AuthServer.stop(): closes the listener, which ends the authorization
\* session; on a server that is not listening it does nothing.
Stop(s) ==
  IF s.st = "listening"
  THEN [s EXCEPT !.st = "stopped", !.port = 0, !.inflight = 0,
                 !.outcome = "cancelled"]
  ELSE s

\* TokenManager.clearTokens(): drops the in-memory credential.
ClearTokens(c) == Empty

CleanupStop_SkipsStop ==
  /\ mainpc = "connected"
  /\ mainpc' = "cleanup"
  /\ UNCHANGED <<now, file, creds, listeners, issued, authServer, pc, tokens,
                 info, call, hnd, srv>>

\* index.ts:545-558  SIGINT or SIGTERM arrives once the handlers are
\* registered; cleanup() calls authServer.stop() and awaits it.
CleanupStop ==
  /\ mainpc = "connected"
  /\ mainpc' = "cleanup"
  /\ srv' = IF authServer THEN Stop(srv) ELSE srv
  /\ UNCHANGED <<now, file, creds, listeners, issued, authServer, pc, tokens,
                 info, call, hnd>>

\* index.ts:559-562  stop() has answered: clearTokens() and process.exit(0).
\* Every task of the process ends where it is.
CleanupExit ==
  /\ mainpc = "cleanup"
  /\ mainpc' = "exited"
  /\ creds' = ClearTokens(creds)
  /\ UNCHANGED <<now, file, listeners, issued, authServer, pc, tokens, info,
                 call, hnd, srv>>

Next ==
  \/ Tick
  \/ MainInit
  \/ MainAfterLoad
  \/ MainAfterStart
  \/ \E t \in Tasks : LoadRead(t)
  \/ \E t \in Tasks : RefreshResponse(t)
  \/ \E c \in Calls : CallTool(c)
  \/ \E c \in Calls : Dispatch(c)
  \/ \E c \in Calls : Finish(c)
  \/ TokensEvent
  \/ \E h \in Handlers : HandlerRead(h)
  \/ \E h \in Handlers : HandlerWrite(h)
  \/ Callback
  \/ ExchangeResponse
  \/ ServerTimeout
  \/ CleanupStop
  \/ CleanupExit

Spec == Init /\ [][Next]_vars

\* The event loop runs a timer that is due and a promise that has settled:
\* the server's timeout fires and an exchange in flight is answered.
FairSpec ==
  Init /\ [][Next]_vars /\ WF_vars(ServerTimeout) /\ WF_vars(ExchangeResponse)

\* ------------------------------- the 'tokens' listener, field by field
\* The listener of index.ts:166-178 on whole JSON objects: an object is a
\* function from the fields it carries to their values.  "scope" stands for
\* any field the provider adds; "" is an empty (falsy) value and "undefined"
\* the value of a field that is not there.  MergeTokens above is the same
\* merge on the three fields the rest of the model follows.
Fields == {"access_token", "refresh_token", "expiry_date", "scope"}

Objects(values) == UNION {[D -> values] : D \in SUBSET Fields}

\* o[f] of the code: undefined for a field the object does not carry
Get(o, f) == IF f \in DOMAIN o THEN o[f] ELSE "undefined"

Truthy(v) == v \notin {"undefined", ""}

\* JSON.stringify leaves out the fields whose value is undefined
Stringify(o) == [f \in {g \in DOMAIN o : o[g] # "undefined"} |-> o[f]]

UpdatedTokens_PlainSpread(currentTokens, newTokens) ==
  [f \in DOMAIN currentTokens \cup DOMAIN newTokens |->
     IF f \in DOMAIN newTokens THEN newTokens[f] ELSE currentTokens[f]]

\* index.ts:169-173  {...currentTokens, ...newTokens,
\*   refresh_token: newTokens.refresh_token || currentTokens.refresh_token}
UpdatedTokens(currentTokens, newTokens) ==
  [f \in DOMAIN currentTokens \cup DOMAIN newTokens \cup {"refresh_token"} |->
     IF f = "refresh_token"
     THEN IF Truthy(Get(newTokens, f)) THEN newTokens[f]
          ELSE Get(currentTokens, f)
     ELSE IF f \in DOMAIN newTokens THEN newTokens[f] ELSE currentTokens[f]]

\* index.ts:168  what JSON.parse gives for the token file at the start
StoredObjects == Objects({"", "S"})

\* index.ts:166  what a 'tokens' event can carry
EventObjects == Objects({"undefined", "", "P"})

IdleListener == [st |-> "free", nt |-> <<>>, upd |-> <<>>]

MergeInit ==
  /\ now = 1
  /\ file \in {NoFile} \cup {FileOf(o) : o \in StoredObjects}
  /\ creds = Empty
  /\ listeners = 1
  /\ issued = 0
  /\ mainpc = "connected"
  /\ authServer = TRUE
  /\ pc = [t \in Tasks |-> "idle"]
  /\ tokens = [t \in Tasks |-> Empty]
  /\ info = [t \in Tasks |-> NoInfo]
  /\ call = [c \in Calls |-> NoCall]
  /\ hnd = IdleListener
  /\ srv = IdleServer

\* index.ts:166  the client emits 'tokens' and the listener starts.
MergeEvent ==
  /\ hnd.st = "free"
  /\ \E newTokens \in EventObjects :
       hnd' = [st |-> "read", nt |-> newTokens, upd |-> <<>>]
  /\ UNCHANGED <<now, file, creds, listeners, issued, mainpc, authServer, pc,
                 tokens, info, call, srv>>

\* index.ts:168-173  the file is read and parsed and the records are merged;
\* an unreadable file throws into the catch of index.ts:175-177.
MergeRead ==
  /\ hnd.st = "read"
  /\ hnd' = IF Loadable(file)
            THEN [hnd EXCEPT !.st = "write",
                             !.upd = UpdatedTokens(file.rec, hnd.nt)]
            ELSE IdleListener
  /\ UNCHANGED <<now, file, creds, listeners, issued, mainpc, authServer, pc,
                 tokens, info, call, srv>>

\* index.ts:174  JSON.stringify(updatedTokens) is written to the file.
MergeWrite ==
  /\ hnd.st = "write"
  /\ file' = FileOf(Stringify(hnd.upd))
  /\ hnd' = IdleListener
  /\ UNCHANGED <<now, creds, listeners, issued, mainpc, authServer, pc,
                 tokens, info, call, srv>>

MergeNext == MergeEvent \/ MergeRead \/ MergeWrite

MergeSpec == MergeInit /\ [][MergeNext]_vars

\* ---------------------------------------------------------- claims

(* C1: every tool request passes the credential check first: a calendar API
   call is only ever issued for a request whose validateTokens() answered
   true, whatever the tool name, and a request whose validateTokens()
   answered false ends with the authentication-required error and no API
   call. *)
C1_GateBeforeApi ==
  \A c \in Calls :
    /\ call[c].outcome # "none" => pc[c] = "done"
    /\ call[c].api # "none" => info[c].ret
    /\ (pc[c] = "done" /\ ~info[c].ret) =>
         (call[c].outcome = "authError" /\ call[c].api = "none")
    /\ (pc[c] = "done" /\ info[c].ret) => call[c].outcome # "authError"

C1_Witness ==
  \E c \in Calls :
    pc[c] = "done" /\ ~info[c].ret /\ call[c].outcome = "authError"

(* C2: loading the saved tokens answers true only if a usable credential is
   installed when it answers: an access token whose expiry_date has not been
   reached. *)
C2_TrueOnlyIfUsable ==
  [][\A t \in Tasks :
       (pc[t] # "ret" /\ pc'[t] = "ret" /\ info'[t].ret)
         => Usable(creds', now')]_vars

(* C3: once the token file holds a refresh_token, every later content of
   the file holds a refresh_token. *)
C3_RefreshTokenKept ==
  [][(Loadable(file) /\ file.rec.rt # 0)
       => (Loadable(file') /\ file'.rec.rt # 0)]_vars

(* C4: at most one refresh request to the provider is outstanding at any
   time, however many tool calls are validating at once. *)
C4_SingleRefresh ==
  Cardinality({t \in Tasks : pc[t] = "refreshing"}) <= 1

\* The stored record's expiry_date is more than the margin ahead.
FarFromExpiry(f, t) == f.kind = "object" /\ f.rec.exp > t + Margin

\* The stored record carries a refresh_token and is inside the margin (or
\* has no expiry_date).
DueForRefresh(f, t) ==
  /\ f.kind = "object"
  /\ f.rec.rt # 0
  /\ (f.rec.exp = 0 \/ t >= f.rec.exp - Margin)

(* C5 as claimed: for a stored credential whose expiry_date is more than 5
   minutes ahead the call answers true with no refresh request and no file
   write, and leaves the persisted record, the installed credential and
   the rest of the credential state as they were. *)
C5_NothingChanges ==
  [][\A t \in Tasks :
       (pc[t] = "load" /\ pc'[t] # "load" /\ FarFromExpiry(file, now)) =>
         /\ pc'[t] = "ret" /\ info'[t].ret
         /\ info'[t].refreshes = 0 /\ issued' = issued
         /\ file' = file
         /\ creds' = creds
         /\ listeners' = listeners]_vars

(* C5 amended: for a stored credential whose expiry_date is more than 5
   minutes ahead the call answers true with no refresh request and no file
   write; the persisted record is unchanged, the installed credential is
   the stored record afterwards (so a repeated call leaves it unchanged),
   and the call registers one more 'tokens' listener. *)
C5_HappyPath ==
  [][\A t \in Tasks :
       (pc[t] = "load" /\ pc'[t] # "load" /\ FarFromExpiry(file, now)) =>
         /\ pc'[t] = "ret" /\ info'[t].ret
         /\ info'[t].refreshes = 0 /\ issued' = issued
         /\ file' = file
         /\ creds' = file.rec
         /\ (creds = file.rec => creds' = creds)
         /\ listeners' = listeners + 1]_vars

C5_Witness ==
  \E c \in Calls :
    /\ pc[c] = "ret" /\ info[c].ret /\ info[c].refreshes = 0
    /\ FarFromExpiry(file, now) /\ creds = file.rec
    /\ listeners = 2

(* C6: for a stored credential with a refresh_token that is inside the
   5-minute margin (or has no expiry_date) one call makes exactly one
   refresh call; when that comes back with an access token the new record
   is written to the file and installed and the call answers true; when it
   comes back rejected or without an access token the call answers false
   and the file is not written. *)
C6_RefreshOnce ==
  [][\A t \in Tasks :
       /\ (pc[t] = "load" /\ pc'[t] # "load" /\ DueForRefresh(file, now)) =>
            (pc'[t] = "refreshing" /\ info'[t].refreshes = 1)
       /\ (pc[t] = "refreshing" /\ pc'[t] # "refreshing") =>
            /\ pc'[t] = "ret" /\ info'[t].refreshes = 1
            /\ info'[t].resp = "tokens" =>
                 /\ info'[t].ret
                 /\ file'.kind = "object" /\ file'.rec.at # 0
                 /\ file'.rec.at # tokens[t].at
                 /\ creds' = file'.rec
            /\ info'[t].resp # "tokens" => (~info'[t].ret /\ file' = file)]_vars

C6_Witness ==
  \E t \in Tasks :
    /\ pc[t] = "ret" /\ info[t].ret /\ info[t].resp = "tokens"
    /\ info[t].refreshes = 1 /\ info[t].wrote
    /\ file.kind = "object" /\ creds = file.rec

(* C7: loading the tokens always ends by answering a boolean and never ends
   the process: with no token file, an unparseable or non-object file, or a
   refresh that is rejected or comes back empty, it answers false, leaves
   the file as it was, and main() goes on to start the callback server. *)
C7_LoadFailsSoftly ==
  [][/\ \A t \in Tasks :
          /\ (pc[t] = "load" /\ pc'[t] # "load"
                /\ file.kind \in {"none", "unparseable", "nonobject"}) =>
               (pc'[t] = "ret" /\ ~info'[t].ret /\ file' = file)
          /\ (pc[t] = "refreshing" /\ pc'[t] # "refreshing"
                /\ info'[t].resp \in {"rejected", "empty"}) =>
               (pc'[t] = "ret" /\ ~info'[t].ret /\ file' = file)
          /\ (pc[t] \in {"load", "refreshing"} /\ pc'[t] # pc[t]) =>
               (pc'[t] \in {"refreshing", "ret"} /\ mainpc' = mainpc)
     /\ (mainpc = "loading" /\ mainpc' # "loading" /\ ~info[0].ret) =>
          mainpc' = "starting"]_vars

C7_Witness ==
  /\ mainpc = "starting"
  /\ file.kind = "nonobject"
  /\ creds = Empty

(* C8: an authentication-required message names a callback port only while
   the callback server is listening, and then names the port the server is
   bound to; with no server listening the message is the one that tells
   the user to run the manual authorization flow. *)
C8_MessageNamesLiveServer ==
  [][\A c \in Calls :
       (call[c].outcome = "none" /\ call'[c].outcome = "authError") =>
         call'[c].port = (IF srv.st = "listening" THEN srv.port ELSE 0)]_vars

(* C9: within one authorization session no second exchange is started once
   a code has been accepted: at most one exchange is in flight, a callback
   that arrives after that is acknowledged and changes neither the session
   nor the credential, a failed exchange leaves the installed and the
   stored credential as they were, and once a credential is installed
   nothing more happens to the session. *)
C9_OneExchange ==
  [][/\ srv'.inflight <= 1
     /\ srv.code => srv'.inflight <= srv.inflight
     /\ (srv'.acked /\ ~srv.acked) =>
          /\ srv.code /\ srv'.code
          /\ srv'.inflight = srv.inflight /\ srv'.st = srv.st
          /\ srv'.failures = srv.failures
          /\ file' = file /\ creds' = creds
     /\ srv'.failures > srv.failures => (file' = file /\ creds' = creds)
     /\ srv.outcome = "success" => srv' = srv]_vars

C9_Witness ==
  /\ srv.acked
  /\ srv.outcome = "success"
  /\ srv.failures = 0
  /\ file.kind = "object" /\ file.rec.at = creds.at /\ Usable(creds, now)

(* C10: start() binds the lowest candidate port that nobody else holds, so
   with the first port taken it binds a later one; with every candidate
   taken nothing is bound and main() exits before the transport is
   connected, after which nothing runs. *)
C10_PortFallthrough ==
  [][/\ (mainpc = "starting" /\ mainpc' # "starting") =>
          IF Ports \ srv.occupied = {}
          THEN srv'.st # "listening" /\ srv'.port = 0 /\ mainpc' = "exited"
          ELSE /\ srv'.st = "listening"
               /\ srv'.port \in Ports \ srv.occupied
               /\ \A q \in Ports \ srv.occupied : srv'.port <= q
               /\ mainpc' = "connected"
     /\ mainpc = "exited" => (mainpc' = "exited" /\ pc' = pc /\ srv' = srv)
     /\ (\E c \in Calls : pc'[c] # pc[c]) => Serving]_vars

C10_Witness ==
  /\ mainpc = "connected"
  /\ srv.st = "listening"
  /\ srv.port = FirstPort + 1

(* C11: the callback server has a bounded lifetime: once listening it
   eventually stops (after an installed exchange, after the retry bound is
   used up, or on the timeout, which is reported as such); a stopped server
   holds no port, has nothing in flight, names how it ended, and never
   changes again. *)
C11_BoundedLifetime ==
  /\ (srv.st = "listening") ~> (srv.st = "stopped")
  /\ [][srv.st = "stopped" => srv' = srv]_vars
  /\ [](srv.st = "stopped" =>
          /\ srv.port = 0 /\ srv.inflight = 0
          /\ srv.outcome \in {"success", "failure", "timeout", "cancelled"}
          /\ srv.outcome = "failure" => srv.failures = MaxRetries + 1
          /\ srv.outcome = "success" => file.kind = "object")
  /\ [](srv.st # "stopped" => srv.outcome = "none")

C11_Witness ==
  /\ srv.st = "stopped"
  /\ srv.outcome = "timeout"
  /\ srv.failures = MaxRetries
  /\ mainpc = "connected"

(* C12: cleanup() on SIGINT/SIGTERM closes the callback listener and drops
   the in-memory credential and leaves the token file as it is: its stop()
   step leaves no server listening and no port held, changes nothing when
   the server was never started or has already stopped, and its final step
   ends the process with empty credentials and the server, the file and the
   refresh count untouched. *)
C12_CleanupFrame ==
  [][/\ (mainpc = "connected" /\ mainpc' = "cleanup") =>
          /\ srv'.st # "listening" /\ srv'.port = 0
          /\ srv.st # "listening" => srv' = srv
          /\ srv.st = "listening" => srv'.st = "stopped"
          /\ file' = file /\ creds' = creds
     /\ (mainpc = "cleanup" /\ mainpc' # "cleanup") =>
          /\ mainpc' = "exited"
          /\ creds' = Empty
          /\ file' = file /\ issued' = issued
          /\ srv' = srv /\ srv.st # "listening" /\ srv.port = 0
     /\ mainpc = "cleanup" => mainpc' \in {"cleanup", "exited"}]_vars

C12_Witness ==
  /\ mainpc = "exited"
  /\ srv.st = "stopped" /\ srv.outcome = "cancelled"
  /\ creds = Empty
  /\ file.kind = "object" /\ file.rec.rt # 0

(* C13: the listener's merge-and-save lays the partial record over the
   stored one: the saved record has the partial record's value for every
   field that record carries and the stored value for every other field
   (fields the provider adds included), except that refresh_token is the
   partial record's when that is non-empty and the stored one otherwise;
   no other field appears. *)
C13_MergeOverlay ==
  [][(hnd.st = "write" /\ hnd'.st = "free") =>
       LET S == file.rec
           P == hnd.nt
           R == file'.rec
       IN /\ file.kind = "object" /\ file'.kind = "object"
          /\ DOMAIN R \subseteq DOMAIN S \cup DOMAIN P
          /\ \A f \in Fields \ {"refresh_token"} :
               Get(R, f) = IF f \in DOMAIN P THEN P[f] ELSE Get(S, f)
          /\ Get(R, "refresh_token") =
               IF Truthy(Get(P, "refresh_token")) THEN P["refresh_token"]
               ELSE Get(S, "refresh_token")]_vars

C13_Witness ==
  /\ hnd.st = "free"
  /\ file.kind = "object"
  /\ DOMAIN file.rec = {"access_token", "refresh_token", "scope"}
  /\ file.rec["access_token"] = "P"
  /\ file.rec["refresh_token"] = "S"
  /\ file.rec["scope"] = "S"

====
